---- MODULE Spec2Model ----
(***************************************************************************)
(* Model of the Website-Scrapper service: the /scrape dispatch of          *)
(* app/main.py, the static fetcher (app/scraper/static_scraper.py), the    *)
(* rendered fetcher (app/scraper/js_scraper.py), the interaction engine    *)
(* (app/scraper/interactions.py) and the URL helpers (app/utils/url.py).   *)
(*                                                                         *)
(* Strings that the code inspects character by character (URLs) are        *)
(* sequences of one-character strings.  A text whose only observed         *)
(* property is its length is modelled by that length.                      *)
(***************************************************************************)
EXTENDS Naturals, Sequences, FiniteSets

(***************************************************************************)
(* Bounds of the model (not program constants).                            *)
(***************************************************************************)
\* largest number of elements one tab selector may match on a page
MaxTabs == 6
\* document heights range over 0..MaxHeight
MaxHeight == 3
\* distinct URLs the browser's page may be on are 1..MaxPageUrl
MaxPageUrl == 3
\* longest section sequence handed to is_sufficient in SpecSufficient
MaxSections == 3
\* longest suffix appended to a URL prefix in SpecNormalize
MaxUrlSuffix == 4
\* longest sequence of body children drawn from Elements in SpecParse
MaxElements == 3

(***************************************************************************)
(* Program constants.                                                      *)
(***************************************************************************)
MIN_TEXT_LENGTH == 200
MIN_SECTIONS == 1
TAB_LIMIT == 5
max_clicks == 3
max_scrolls == 3
max_depth == 3

(***************************************************************************)
(* Character strings.                                                      *)
(***************************************************************************)
\* first index >= from at which s holds a character of cs, 0 when none
FindFrom(s, cs, from) ==
    IF \E i \in from..Len(s) : s[i] \in cs
    THEN CHOOSE i \in from..Len(s) : s[i] \in cs /\ \A j \in from..(i - 1) : s[j] \notin cs
    ELSE 0

\* last index at which s holds c, 0 when none
RFind(s, c) ==
    IF \E i \in 1..Len(s) : s[i] = c
    THEN CHOOSE i \in 1..Len(s) : s[i] = c /\ \A j \in (i + 1)..Len(s) : s[j] # c
    ELSE 0

StartsWith(s, p) == Len(s) >= Len(p) /\ SubSeq(s, 1, Len(p)) = p

Tail_from(s, i) == SubSeq(s, i, Len(s))

Range(q) == {q[i] : i \in 1..Len(q)}

Letters == {"h", "t", "p", "s", "f", "x", "a", "q", "H"}
SchemeChars == Letters \cup {"+", "-", "."}
Lower(c) == IF c = "H" THEN "h" ELSE c
LowerStr(s) == [i \in 1..Len(s) |-> Lower(s[i])]

HTTP_PREFIX == <<"h", "t", "t", "p", ":", "/", "/">>
HTTPS_PREFIX == <<"h", "t", "t", "p", "s", ":", "/", "/">>

(***************************************************************************)
(* app/utils/url.py                                                        *)
(***************************************************************************)
\* urllib.parse.urlsplit, last step: the query is what follows the first "?"
SplitQuery(scheme, netloc, rest, fragment) ==
    LET q == FindFrom(rest, {"?"}, 1)
    IN [scheme |-> scheme, netloc |-> netloc,
        path |-> IF q = 0 THEN rest ELSE SubSeq(rest, 1, q - 1),
        query |-> IF q = 0 THEN <<>> ELSE Tail_from(rest, q + 1),
        fragment |-> fragment]

\* urllib.parse.urlsplit: the fragment is what follows the first "#"
SplitFragment(scheme, netloc, rest) ==
    LET h == FindFrom(rest, {"#"}, 1)
    IN IF h = 0
       THEN SplitQuery(scheme, netloc, rest, <<>>)
       ELSE SplitQuery(scheme, netloc, SubSeq(rest, 1, h - 1), Tail_from(rest, h + 1))

\* urllib.parse.urlsplit: after "//" the netloc runs to the first of "/?#"
SplitNetloc(scheme, rest) ==
    LET d == FindFrom(rest, {"/", "?", "#"}, 3)
    IN IF ~StartsWith(rest, <<"/", "/">>) THEN SplitFragment(scheme, <<>>, rest)
       ELSE IF d = 0 THEN SplitFragment(scheme, Tail_from(rest, 3), <<>>)
       ELSE SplitFragment(scheme, SubSeq(rest, 3, d - 1), Tail_from(rest, d))

\* urllib.parse.urlsplit: scheme, netloc, then fragment, then query
urlsplit(url) ==
    LET i == FindFrom(url, {":"}, 1)
    IN IF /\ i > 1
          /\ url[1] \in Letters
          /\ \A j \in 1..(i - 1) : url[j] \in SchemeChars
       THEN SplitNetloc(LowerStr(SubSeq(url, 1, i - 1)), Tail_from(url, i + 1))
       ELSE SplitNetloc(<<>>, url)

\* the schemes of urllib.parse.uses_params that the alphabet can spell
uses_params == {<<>>, <<"f", "t", "p">>, <<"h", "t", "t", "p">>,
                <<"h", "t", "t", "p", "s">>}

\* urllib.parse.urlparse, last step: the params of the last path segment
SplitParams(s) ==
    LET slash == RFind(s.path, "/")
        semi == IF s.scheme \in uses_params
                THEN FindFrom(s.path, {";"}, IF slash = 0 THEN 1 ELSE slash)
                ELSE 0
    IN [scheme |-> s.scheme, netloc |-> s.netloc,
        path |-> IF semi = 0 THEN s.path ELSE SubSeq(s.path, 1, semi - 1),
        params |-> IF semi = 0 THEN <<>> ELSE Tail_from(s.path, semi + 1),
        query |-> s.query, fragment |-> s.fragment]

\* urllib.parse.urlparse: urlsplit, then the params of the last path segment
urlparse(url) == SplitParams(urlsplit(url))

is_valid_url(url) ==
    LET result == urlparse(url)
    IN result.scheme \in {<<"h", "t", "t", "p">>, <<"h", "t", "t", "p", "s">>}
       /\ result.netloc # <<>>

normalize_url(url) ==
    LET parsed == urlparse(url)
        normalized == parsed.scheme \o <<":", "/", "/">> \o parsed.netloc \o parsed.path
    IN IF parsed.query # <<>> THEN normalized \o <<"?">> \o parsed.query ELSE normalized

(***************************************************************************)
(* app/main.py: ScrapeRequest.validate_url                                 *)
(***************************************************************************)
validate_url(v) == StartsWith(v, HTTP_PREFIX) \/ StartsWith(v, HTTPS_PREFIX)

(***************************************************************************)
(* app/scraper/static_scraper.py: StaticScraper.is_sufficient              *)
(* A section is [text |-> length of its text, links |-> number of links,   *)
(* images |-> number of images].                                           *)
(***************************************************************************)
RECURSIVE SumText(_)
SumText(sections) ==
    IF sections = <<>> THEN 0
    ELSE Head(sections).text + SumText(Tail(sections))

\* variant: a text total of exactly MIN_TEXT_LENGTH is rejected
is_sufficientNeedsLink(res) ==
    LET sections == res.sections
    IN /\ Len(sections) >= MIN_SECTIONS
       /\ SumText(sections) >= MIN_TEXT_LENGTH
       /\ \E i \in 1..Len(sections) :
            sections[i].links > 0 \/ sections[i].images > 0

is_sufficientInclusive(res) ==
    LET sections == res.sections
    IN /\ Len(sections) >= MIN_SECTIONS
       /\ SumText(sections) > MIN_TEXT_LENGTH
       /\ \E i \in 1..Len(sections) :
            sections[i].text > 0 \/ sections[i].links > 0 \/ sections[i].images > 0

is_sufficient(res) ==
    LET sections == res.sections
    IN
    IF Len(sections) < MIN_SECTIONS THEN FALSE
    ELSE IF SumText(sections) < MIN_TEXT_LENGTH THEN FALSE
    ELSE IF ~(\E i \in 1..Len(sections) :
                \/ sections[i].text > 0
                \/ sections[i].links > 0
                \/ sections[i].images > 0) THEN FALSE
    ELSE TRUE

(***************************************************************************)
(* State.                                                                  *)
(***************************************************************************)
VARIABLES
    pc,          \* position of the request being served in main.scrape
    url,         \* request.url
    client,      \* StaticScraper.client: "none", "open"
    result,      \* the local `result` of main.scrape
    exc,         \* the exception in flight, NoExc when none
    response,    \* what the caller receives, NoResponse while serving
    browser,     \* the rendered session: "none", "open", "closed"
    pageUrl,     \* page.url, 0 while there is no page or it has not navigated
    clicks,      \* InteractionHandler.clicks
    scrolls,     \* InteractionHandler.scrolls
    pages,       \* InteractionHandler.pages
    loc,         \* the locals of the interaction phase that is running
    events,      \* history: fetches and phases started for this request, in order
    gets,        \* history: HTTP GETs issued for this request
    navs,        \* history: page.goto calls issued for this request
    stamps,      \* history: assignments of scrapedAt made for this request
    verdict,     \* history: what is_sufficient returned, "none" before
    status,      \* history: the status code the GET was answered with, 0 if none
    scrollRaised, \* history: _handle_infinite_scroll ended in its except clause
    lastHop,     \* history: what the last turn of the pagination loop did
    soup,        \* the tree handed to SectionParser where the parser is checked
    ret          \* the value returned by the function that is checked on its own

vars == <<pc, url, client, result, exc, response, browser, pageUrl, clicks,
          scrolls, pages, loc, events, gets, navs, stamps, verdict, status,
          scrollRaised, lastHop, soup, ret>>

pureVars == <<soup, ret>>
handlerVars == <<clicks, scrolls, pages, loc, pageUrl>>
historyVars ==
    <<events, gets, navs, stamps, verdict, status, scrollRaised, lastHop>>

EmptyDict == [k \in {} |-> 0]
NoResult == EmptyDict
NoExc == [type |-> "none"]
NoResponse == [status |-> 0]
NoLoc == EmptyDict

(***************************************************************************)
(* Inputs: the requests the service receives and what the network and the  *)
(* pages may answer.                                                       *)
(***************************************************************************)
\* "http://x/a#f", "ftp://x/a", "http://", "http:///a"
RequestUrls ==
    { <<"h", "t", "t", "p", ":", "/", "/", "x", "/", "a", "#", "f">>,
      <<"f", "t", "p", ":", "/", "/", "x", "/", "a">>,
      <<"h", "t", "t", "p", ":", "/", "/">>,
      <<"h", "t", "t", "p", ":", "/", "/", "/", "a">> }

Meta(t) == [title |-> t, description |-> "", language |-> "", canonical |-> ""]
Section(t, l, i) == [text |-> t, links |-> l, images |-> i]

\* what extract_meta and parse_sections make of a fetched document
RichPage == [meta |-> Meta("T"),
             sections |-> <<Section(220, 0, 0), Section(30, 1, 0)>>]
SparsePage == [meta |-> Meta(""),
               sections |-> <<Section(50, 0, 0), Section(50, 0, 0), Section(50, 0, 0)>>]
Pages == {RichPage, SparsePage}

StatusCodes == {404, 500}

\* the outcomes of client.get + raise_for_status + parsing for a URL
StaticOutcomes(normalized) ==
    LET failures == {[kind |-> "status", code |-> c] : c \in StatusCodes}
                    \cup {[kind |-> "request_error"], [kind |-> "exception"],
                          [kind |-> "extract"]}
    IN IF urlparse(normalized).netloc = <<>>
       THEN {[kind |-> "request_error"], [kind |-> "exception"]}
       ELSE failures \cup {[kind |-> "ok", page |-> p] : p \in Pages}

(***************************************************************************)
(* app/utils/errors.py                                                     *)
(***************************************************************************)
ScraperError == {"NetworkError", "ParsingError", "JSRenderError"}

(***************************************************************************)
(* app/scraper/static_scraper.py: StaticScraper.scrape                     *)
(* The value returned (raised |-> FALSE) or the exception raised.          *)
(***************************************************************************)
StaticScraper_scrape(u, o) ==
    LET normalized_url == normalize_url(u)
    IN CASE o.kind = "ok" ->
              [raised |-> FALSE,
               value |-> [url |-> normalized_url,
                          meta |-> o.page.meta,
                          sections |-> o.page.sections,
                          interactions |-> [clicks |-> <<>>, scrolls |-> 0, pages |-> <<>>],
                          errors |-> <<>>]]
         [] o.kind = "status" ->
              [raised |-> TRUE,
               value |-> [type |-> "NetworkError",
                          msg |-> <<"HTTP ", o.code, ": ", "detail">>]]
         [] o.kind = "request_error" ->
              [raised |-> TRUE,
               value |-> [type |-> "NetworkError",
                          msg |-> <<"Network error: ", "detail">>]]
         [] OTHER ->
              [raised |-> TRUE,
               value |-> [type |-> "ParsingError",
                          msg |-> <<"Failed to parse HTML: ", o.kind>>]]

(***************************************************************************)
(* app/main.py: scrape                                                     *)
(***************************************************************************)
\* datetime.utcnow().isoformat() + 'Z'
Now == "utcnow-Z"

\* variant: the assignment of scrapedAt is missing
StampMissing(r) == r

\* result['scrapedAt'] = ...
Stamp(r) == [k \in DOMAIN r \cup {"scrapedAt"} |->
                IF k = "scrapedAt" THEN Now ELSE r[k]]

JSONResponse(r) == [status |-> 200, result |-> r]

\* variant: the degraded result carries the normalized URL
DegradedResultNormalized(u, e) ==
    [url |-> normalize_url(u),
     scrapedAt |-> Now,
     meta |-> EmptyDict,
     sections |-> <<>>,
     interactions |-> EmptyDict,
     errors |-> <<e.msg>>]

\* the dict built in the `except ScraperError` clause
DegradedResult(u, e) ==
    [url |-> u,
     scrapedAt |-> Now,
     meta |-> EmptyDict,
     sections |-> <<>>,
     interactions |-> EmptyDict,
     errors |-> <<e.msg>>]

\* variant: the static result is never accepted
StaticAcceptedNever(r) == FALSE

\* the branch taken at `if static_scraper.is_sufficient(result)`
StaticAccepted(r) == is_sufficient(r)

Init ==
    /\ pc = "idle"
    /\ url = <<>>
    /\ client = "none"
    /\ result = NoResult
    /\ exc = NoExc
    /\ response = NoResponse
    /\ browser = "none"
    /\ pageUrl = 0
    /\ clicks = <<>>
    /\ scrolls = 0
    /\ pages = <<>>
    /\ loc = NoLoc
    /\ events = <<>>
    /\ gets = 0
    /\ navs = 0
    /\ stamps = 0
    /\ verdict = "none"
    /\ status = 0
    /\ scrollRaised = FALSE
    /\ lastHop = "none"
    /\ soup = <<>>
    /\ ret = <<>>

\* a request arrives; the body is validated before scrape runs
Request ==
    /\ pc = "idle"
    /\ \E u \in RequestUrls :
         /\ url' = u
         /\ IF validate_url(u)
            THEN pc' = "construct" /\ response' = NoResponse
            ELSE pc' = "done" /\ response' = [status |-> 422]
    /\ UNCHANGED <<pureVars, client, result, exc, browser, handlerVars, historyVars>>

\* static_scraper = StaticScraper()
Construct ==
    /\ pc = "construct"
    /\ \/ client' = "open" /\ pc' = "static" /\ exc' = exc
       \/ /\ client' = client
          /\ exc' = [type |-> "Exception", msg |-> <<"detail">>]
          /\ pc' = "except"
    /\ UNCHANGED <<pureVars, url, result, response, browser, handlerVars, historyVars>>

\* result = await static_scraper.scrape(request.url)
StaticScrape ==
    /\ pc = "static"
    /\ \E o \in StaticOutcomes(normalize_url(url)) :
         LET r == StaticScraper_scrape(url, o)
         IN /\ status' = CASE o.kind = "ok" -> 200
                          [] o.kind = "status" -> o.code
                          [] OTHER -> 0
            /\ IF r.raised
               THEN /\ exc' = r.value
                    /\ result' = result
                    /\ pc' = "except"
                    /\ events' = events \o <<"static", r.value.type>>
               ELSE /\ exc' = exc
                    /\ result' = r.value
                    /\ pc' = "check"
                    /\ events' = Append(events, "static")
    /\ gets' = gets + 1
    /\ UNCHANGED <<pureVars, url, client, response, browser, handlerVars, navs, stamps,
                   verdict, scrollRaised, lastHop>>

\* if static_scraper.is_sufficient(result): stamp and return, else fall back
CheckSufficient ==
    /\ pc = "check"
    /\ verdict' = IF is_sufficient(result) THEN "sufficient" ELSE "insufficient"
    /\ IF StaticAccepted(result)
       THEN /\ result' = Stamp(result)
            /\ stamps' = stamps + 1
            /\ response' = JSONResponse(result')
            /\ pc' = "done"
       ELSE /\ pc' = "js_launch"
            /\ UNCHANGED <<result, stamps, response>>
    /\ UNCHANGED <<pureVars, url, client, exc, browser, handlerVars, events, gets, navs,
                   status, scrollRaised, lastHop>>

\* variant: a classified failure of the static fetch falls back to rendering
HandleScraperErrorRetries ==
    /\ pc = "except"
    /\ exc.type \in ScraperError
    /\ IF exc.type # "JSRenderError"
       THEN pc' = "js_launch" /\ UNCHANGED <<response, stamps>>
       ELSE /\ response' = JSONResponse(DegradedResult(url, exc))
            /\ stamps' = stamps + 1
            /\ pc' = "done"
    /\ exc' = NoExc
    /\ UNCHANGED <<pureVars, url, client, result, browser, handlerVars, events, gets, navs,
                   verdict, status, scrollRaised, lastHop>>

\* except ScraperError: the degraded result, status 200
HandleScraperError ==
    /\ pc = "except"
    /\ exc.type \in ScraperError
    /\ response' = JSONResponse(DegradedResult(url, exc))
    /\ stamps' = stamps + 1
    /\ exc' = NoExc
    /\ pc' = "done"
    /\ UNCHANGED <<pureVars, url, client, result, browser, handlerVars, events, gets, navs,
                   verdict, status, scrollRaised, lastHop>>

\* except Exception: HTTPException(500)
HandleUnexpected ==
    /\ pc = "except"
    /\ exc.type \notin ScraperError
    /\ response' = [status |-> 500, detail |-> exc.msg]
    /\ exc' = NoExc
    /\ pc' = "done"
    /\ UNCHANGED <<pureVars, url, client, result, browser, handlerVars, historyVars>>

(***************************************************************************)
(* app/scraper/js_scraper.py: JSScraper.scrape                             *)
(***************************************************************************)
\* JSRenderError(f"Failed to render page: {str(e)}"), e named by the step that raised
JSRenderError(e) == [type |-> "JSRenderError",
                     msg |-> <<"Failed to render page: ", e>>]

\* variant: the except clause raises without closing the browser
JSExceptLeaks(e) ==
    /\ browser' = browser
    /\ exc' = JSRenderError(e)
    /\ pc' = "except"
    /\ events' = Append(events, "JSRenderError")

\* except Exception as e: if browser: await browser.close(); raise JSRenderError
JSExcept(e) ==
    /\ browser' = IF browser = "open" THEN "closed" ELSE browser
    /\ exc' = JSRenderError(e)
    /\ pc' = "except"
    /\ events' = Append(events, "JSRenderError")

\* js_scraper = JSScraper(); scrape: normalize_url, async_playwright, launch
JSLaunch ==
    /\ pc = "js_launch"
    /\ \E f \in {"none", "async_playwright", "launch"} :
         IF f = "none"
         THEN /\ browser' = "open"
              /\ pc' = "js_setup"
              /\ exc' = exc
              /\ events' = Append(events, "render")
         ELSE /\ browser' = browser
              /\ exc' = JSRenderError(f)
              /\ pc' = "except"
              /\ events' = events \o <<"render", "JSRenderError">>
    /\ UNCHANGED <<pureVars, url, client, result, response, handlerVars, gets, navs, stamps,
                   verdict, status, scrollRaised, lastHop>>

\* the URL page.goto(normalized_url) leaves the page on
LandingUrl == 1

\* new_context, new_page, goto, _wait_for_content, _remove_noise
\* (both helpers swallow their own failures but for the final wait_for_timeout)
JSNavigate ==
    /\ pc = "js_setup"
    /\ \E f \in {"none", "new_context", "new_page", "goto", "wait_for_timeout"} :
         /\ navs' = IF f \in {"new_context", "new_page"} THEN navs ELSE navs + 1
         /\ pageUrl' = IF f \in {"none", "wait_for_timeout"} THEN LandingUrl ELSE pageUrl
         /\ IF f = "none"
            THEN pc' = "interact" /\ UNCHANGED <<browser, exc, events>>
            ELSE JSExcept(f)
    /\ UNCHANGED <<pureVars, url, client, result, response, clicks, scrolls, pages, loc,
                   gets, stamps, verdict, status, scrollRaised, lastHop>>

(***************************************************************************)
(* app/scraper/interactions.py: InteractionHandler                         *)
(***************************************************************************)
tab_selectors ==
    <<"[role=\"tab\"]", ".tab", "[class*=\"tab-\"]", "button[data-tab]",
      "a[data-toggle=\"tab\"]">>

load_more_selectors ==
    <<"button:has-text(\"Load more\")", "button:has-text(\"Show more\")",
      "button:has-text(\"View more\")", "a:has-text(\"Load more\")",
      "[class*=\"load-more\"]", "[class*=\"show-more\"]", "button[class*=\"more\"]">>

pagination_selectors ==
    <<"a:has-text(\"Next\")", "a:has-text(\">\")", "[rel=\"next\"]",
      ".pagination a:last-child", "[class*=\"next\"]", "button:has-text(\"Next\")">>

Min(a, b) == IF a < b THEN a ELSE b

\* perform_interactions: the phase awaited after `phase`, "return" after the last
NextPhase(phase) ==
    CASE phase = "start" -> "tabs"
      [] phase = "tabs" -> "load_more"
      [] phase = "load_more" -> "scroll"
      [] phase = "scroll" -> "pagination"
      [] OTHER -> "return"

\* the locals a phase starts with
InitialLoc(phase) ==
    CASE phase = "tabs" -> [sel |-> 1, tabs |-> 0, idx |-> 0]
      [] phase = "load_more" -> [sel |-> 1, clicks_performed |-> 0]
      [] phase = "scroll" -> [stage |-> "init", previous_height |-> 0, scroll_attempts |-> 0]
      [] phase = "pagination" -> [sel |-> 1, current_page |-> 1, visited_urls |-> {pageUrl}]
      [] OTHER -> NoLoc

\* control passes from `phase` to the phase perform_interactions awaits next
Leave(phase) ==
    LET next == NextPhase(phase)
    IN /\ pc' = IF next = "return" THEN "js_extract" ELSE next
       /\ loc' = InitialLoc(next)
       /\ events' = Append(events, next)

\* interaction_handler = InteractionHandler(page); await perform_interactions(3)
PerformInteractions ==
    /\ pc = "interact"
    /\ clicks' = <<>>
    /\ scrolls' = 0
    /\ pages' = <<>>
    /\ Leave("start")
    /\ UNCHANGED <<pureVars, url, client, result, exc, response, browser, pageUrl,
                   gets, navs, stamps, verdict, status, scrollRaised, lastHop>>

\* _handle_tabs: tabs = await self.page.locator(selector).all()
TabsLocate ==
    /\ pc = "tabs"
    /\ loc.tabs = 0
    /\ \E raised \in BOOLEAN : \E n \in 0..MaxTabs :
         LET found == IF raised THEN 0 ELSE n
         IN /\ scrollRaised' = scrollRaised
            /\ IF found > 0
               THEN loc' = [loc EXCEPT !.tabs = found, !.idx = 0] /\ UNCHANGED <<pc, events>>
               ELSE IF loc.sel < Len(tab_selectors)
               THEN loc' = [loc EXCEPT !.sel = @ + 1] /\ UNCHANGED <<pc, events>>
               ELSE Leave("tabs")
    /\ UNCHANGED <<pureVars, url, client, result, exc, response, browser, pageUrl, clicks,
                   scrolls, pages, gets, navs, stamps, verdict, status, lastHop>>

TabOutcomes == {"ok", "not_visible", "fail_is_visible", "fail_inner_text",
                "fail_click", "fail_wait_for_timeout"}

\* the entry appended to self.clicks after a tab was clicked
TabClick(sel) == [type |-> "tab", selector |-> tab_selectors[sel], text |-> "text"]

\* variant: the loop over the selectors goes on after tabs were found
TabsBreakMissing == FALSE

\* `if tabs: break`
TabsBreak == TRUE

\* _handle_tabs: one turn of `for idx, tab in enumerate(tabs[:5])` with outcome o
TabsClickStep(o) ==
    /\ pc = "tabs"
    /\ loc.tabs > 0
    /\ clicks' = IF o = "ok" THEN Append(clicks, TabClick(loc.sel)) ELSE clicks
    /\ IF loc.idx + 1 < Min(loc.tabs, TAB_LIMIT)
       THEN loc' = [loc EXCEPT !.idx = @ + 1] /\ UNCHANGED <<pc, events>>
       ELSE IF TabsBreak \/ loc.sel = Len(tab_selectors)
       THEN Leave("tabs")
       ELSE /\ loc' = [sel |-> loc.sel + 1, tabs |-> 0, idx |-> 0]
            /\ UNCHANGED <<pc, events>>

TabsClick ==
    /\ \E o \in TabOutcomes : TabsClickStep(o)
    /\ UNCHANGED <<pureVars, url, client, result, exc, response, browser, pageUrl, scrolls,
                   pages, gets, navs, stamps, verdict, status, scrollRaised, lastHop>>

LoadMoreOutcomes == {"ok", "not_visible", "fail_is_visible", "fail_inner_text",
                     "fail_click", "fail_wait_for_timeout"}

\* the entry appended to self.clicks after a load-more button was clicked
LoadMoreClick(sel) ==
    [type |-> "load_more", selector |-> load_more_selectors[sel], text |-> "text"]

\* variant: the loop over the selectors goes on after a selector was clicked
LoadMoreStopsNever(l) == FALSE

\* `if clicks_performed > 0: break`
LoadMoreStops(l) == l.clicks_performed > 0

\* _handle_load_more: one turn of `while clicks_performed < max_clicks` with outcome o
LoadMoreStep(o) ==
    /\ pc = "load_more"
    /\ loc.clicks_performed < max_clicks
    /\ IF o = "ok"
       THEN /\ clicks' = Append(clicks, LoadMoreClick(loc.sel))
            /\ IF loc.clicks_performed + 1 < max_clicks
               THEN /\ loc' = [loc EXCEPT !.clicks_performed = @ + 1]
                    /\ UNCHANGED <<pc, events>>
               ELSE Leave("load_more")
       ELSE /\ clicks' = clicks
            /\ IF LoadMoreStops(loc) \/ loc.sel = Len(load_more_selectors)
               THEN Leave("load_more")
               ELSE loc' = [loc EXCEPT !.sel = @ + 1] /\ UNCHANGED <<pc, events>>

LoadMoreTry ==
    /\ \E o \in LoadMoreOutcomes : LoadMoreStep(o)
    /\ UNCHANGED <<pureVars, url, client, result, exc, response, browser, pageUrl, scrolls,
                   pages, gets, navs, stamps, verdict, status, scrollRaised, lastHop>>

\* variant: _handle_infinite_scroll lets the failure out
ScrollExceptRaises == "raise"

\* _handle_infinite_scroll: what `except Exception` does with a failure
ScrollExcept == "return"

\* a failure of a page primitive inside _handle_infinite_scroll
ScrollFailed ==
    IF ScrollExcept = "return"
    THEN Leave("scroll") /\ UNCHANGED <<browser, exc>>
    ELSE JSExcept("evaluate") /\ loc' = NoLoc

\* variant: scroll_attempts is not counted
ScrollAdvanceUncounted(l, new_height) == [l EXCEPT !.previous_height = new_height]

\* scroll_attempts += 1; previous_height = new_height
ScrollAdvance(l, new_height) ==
    [l EXCEPT !.scroll_attempts = @ + 1, !.previous_height = new_height]

\* variant: an unchanged height counts as growth
HeightGrewOrSame(new_height, previous_height) == new_height >= previous_height

\* `if new_height > previous_height`
HeightGrew(new_height, previous_height) == new_height > previous_height

\* _handle_infinite_scroll: previous_height = await evaluate(scrollHeight)
ScrollStart ==
    /\ pc = "scroll"
    /\ loc.stage = "init"
    /\ \E raised \in BOOLEAN : \E h \in 0..MaxHeight :
         /\ scrollRaised' = raised
         /\ IF raised
            THEN ScrollFailed
            ELSE /\ loc' = [stage |-> "loop", previous_height |-> h, scroll_attempts |-> 0]
                 /\ UNCHANGED <<pc, events, browser, exc>>
    /\ UNCHANGED <<pureVars, url, client, result, response, pageUrl, clicks,
                   scrolls, pages, gets, navs, stamps, verdict, status, lastHop>>

\* _handle_infinite_scroll: one turn of `while scroll_attempts < max_scrolls`,
\* in which primitive f failed ("none": no failure) or the height read is new_height
ScrollStep(f, new_height) ==
    /\ pc = "scroll"
    /\ loc.stage = "loop"
    /\ loc.scroll_attempts < max_scrolls
    /\ scrollRaised' = (f # "none")
    /\ IF f # "none"
       THEN ScrollFailed /\ scrolls' = scrolls
       ELSE IF HeightGrew(new_height, loc.previous_height)
       THEN /\ scrolls' = scrolls + 1
            /\ IF ScrollAdvance(loc, new_height).scroll_attempts < max_scrolls
               THEN /\ loc' = ScrollAdvance(loc, new_height)
                    /\ UNCHANGED <<pc, events>>
               ELSE Leave("scroll")
            /\ UNCHANGED <<browser, exc>>
       ELSE /\ scrolls' = scrolls
            /\ Leave("scroll")
            /\ UNCHANGED <<browser, exc>>

ScrollFailures == {"none", "scrollTo", "wait_for_timeout", "scrollHeight"}

ScrollIter ==
    /\ \E f \in ScrollFailures : \E new_height \in 0..MaxHeight : ScrollStep(f, new_height)
    /\ UNCHANGED <<pureVars, url, client, result, response, pageUrl, clicks,
                   pages, gets, navs, stamps, verdict, status, lastHop>>

PageUrls == 1..MaxPageUrl

\* what one "next" selector may do: nothing visible or a failure before the
\* click lands, a click that leaves the page on `to` and whose wait times out,
\* a click that leaves the page on `to` and settles
PaginationOutcomes ==
    {[kind |-> k, to |-> 0] :
        k \in {"not_visible", "fail_is_visible", "fail_get_attribute", "fail_click"}}
    \cup {[kind |-> k, to |-> u] : k \in {"fail_wait_for_load_state", "ok"}, u \in PageUrls}

\* the entry appended to self.pages
PageEntry(n, u) == [pageNumber |-> n, url |-> u]

\* variant: the new URL is not added to visited_urls
PaginationAdvanceForgetful(l, new_url) ==
    [sel |-> 1, current_page |-> l.current_page + 1, visited_urls |-> l.visited_urls]

\* visited_urls.add(new_url); current_page += 1; break out of the selector loop
PaginationAdvance(l, new_url) ==
    [sel |-> 1, current_page |-> l.current_page + 1,
     visited_urls |-> l.visited_urls \cup {new_url}]

\* variant: an already visited URL moves on to the next selector
RevisitContinues == "continue"

\* the `else: break` taken when new_url is in visited_urls
Revisit == "break"

\* _handle_pagination: one turn of `for selector in pagination_selectors`
\* with outcome o
PaginationStep(o) ==
    /\ pc = "pagination"
    /\ loc.current_page < max_depth
    /\ pageUrl' = IF o.to = 0 THEN pageUrl ELSE o.to
    /\ IF o.kind = "ok" /\ o.to \notin loc.visited_urls
       THEN /\ lastHop' = "recorded"
            /\ pages' = Append(pages, PageEntry(loc.current_page + 1, o.to))
            /\ IF PaginationAdvance(loc, o.to).current_page < max_depth
               THEN /\ loc' = PaginationAdvance(loc, o.to)
                    /\ UNCHANGED <<pc, events>>
               ELSE Leave("pagination")
       ELSE /\ lastHop' = IF o.kind = "ok" THEN "revisit" ELSE "skipped"
            /\ pages' = pages
            /\ IF (o.kind = "ok" /\ Revisit = "break")
                  \/ loc.sel = Len(pagination_selectors)
               THEN Leave("pagination")
               ELSE loc' = [loc EXCEPT !.sel = @ + 1] /\ UNCHANGED <<pc, events>>

PaginationTry ==
    /\ \E o \in PaginationOutcomes : PaginationStep(o)
    /\ UNCHANGED <<pureVars, url, client, result, exc, response, browser, clicks,
                   scrolls, gets, navs, stamps, verdict, status, scrollRaised>>

\* html_content = await page.content() ... await browser.close(); return result
JSExtract ==
    /\ pc = "js_extract"
    /\ \E f \in {"none", "content", "parse", "extract"} : \E p \in Pages :
         IF f = "none"
         THEN /\ result' = [url |-> normalize_url(url),
                            meta |-> p.meta,
                            sections |-> p.sections,
                            interactions |-> [clicks |-> clicks, scrolls |-> scrolls,
                                              pages |-> pages],
                            errors |-> <<>>]
              /\ browser' = "closed"
              /\ pageUrl' = 0
              /\ pc' = "js_return"
              /\ UNCHANGED <<exc, events, clicks, scrolls, pages>>
         ELSE \* the handler and its logs are locals of the frame that is left
              /\ JSExcept(f)
              /\ result' = result
              /\ pageUrl' = 0
              /\ clicks' = <<>>
              /\ scrolls' = 0
              /\ pages' = <<>>
    /\ UNCHANGED <<pureVars, url, client, response, loc, gets, navs, stamps,
                   verdict, status, scrollRaised, lastHop>>

\* main.scrape: result = await js_scraper.scrape(...); stamp; return
ReturnRendered ==
    /\ pc = "js_return"
    /\ result' = Stamp(result)
    /\ stamps' = stamps + 1
    /\ response' = JSONResponse(result')
    /\ pc' = "done"
    /\ UNCHANGED <<pureVars, url, client, exc, browser, handlerVars, events, gets, navs,
                   verdict, status, scrollRaised, lastHop>>

\* the request is over; the next one starts from fresh objects
NextRequest ==
    /\ pc = "done"
    /\ pc' = "idle"
    /\ url' = <<>>
    /\ client' = "none"
    /\ result' = NoResult
    /\ exc' = NoExc
    /\ response' = NoResponse
    /\ browser' = "none"
    /\ pageUrl' = 0
    /\ clicks' = <<>>
    /\ scrolls' = 0
    /\ pages' = <<>>
    /\ loc' = NoLoc
    /\ events' = <<>>
    /\ gets' = 0
    /\ navs' = 0
    /\ stamps' = 0
    /\ verdict' = "none"
    /\ status' = 0
    /\ scrollRaised' = FALSE
    /\ lastHop' = "none"
    /\ UNCHANGED pureVars

Next ==
    \/ Request
    \/ Construct
    \/ StaticScrape
    \/ CheckSufficient
    \/ JSLaunch
    \/ JSNavigate
    \/ PerformInteractions
    \/ TabsLocate
    \/ TabsClick
    \/ LoadMoreTry
    \/ ScrollStart
    \/ ScrollIter
    \/ PaginationTry
    \/ JSExtract
    \/ ReturnRendered
    \/ HandleScraperError
    \/ HandleUnexpected
    \/ NextRequest

Spec == Init /\ [][Next]_vars

(***************************************************************************)
(* SpecSufficient: is_sufficient applied to every bounded section          *)
(* sequence, the empty one included.                                       *)
(***************************************************************************)
TextLengths == {0, 50, 100}
SectionValues == {Section(t, l, i) : t \in TextLengths, l \in {0, 1}, i \in {0, 1}}

RECURSIVE SeqsUpTo(_, _)
SeqsUpTo(S, n) ==
    IF n = 0 THEN {<<>>}
    ELSE LET shorter == SeqsUpTo(S, n - 1)
         IN shorter \cup {Append(q, x) : q \in {r \in shorter : Len(r) = n - 1}, x \in S}

StaticResultWith(sections) ==
    [url |-> <<>>, meta |-> Meta(""), sections |-> sections,
     interactions |-> [clicks |-> <<>>, scrolls |-> 0, pages |-> <<>>],
     errors |-> <<>>]

InitSufficient ==
    /\ pc = "check"
    /\ result \in {StaticResultWith(q) : q \in SeqsUpTo(SectionValues, MaxSections)}
    /\ url = <<>>
    /\ client = "open"
    /\ exc = NoExc
    /\ response = NoResponse
    /\ browser = "none"
    /\ pageUrl = 0
    /\ clicks = <<>>
    /\ scrolls = 0
    /\ pages = <<>>
    /\ loc = NoLoc
    /\ events = <<>>
    /\ gets = 0
    /\ navs = 0
    /\ stamps = 0
    /\ verdict = "none"
    /\ status = 0
    /\ scrollRaised = FALSE
    /\ lastHop = "none"
    /\ soup = <<>>
    /\ ret = <<>>

\* static_scraper.is_sufficient(result)
ApplySufficient ==
    /\ pc = "check"
    /\ verdict' = IF is_sufficient(result) THEN "sufficient" ELSE "insufficient"
    /\ pc' = "applied"
    /\ UNCHANGED <<pureVars, url, client, result, exc, response, browser, handlerVars,
                   events, gets, navs, stamps, status, scrollRaised, lastHop>>

NextSufficient == ApplySufficient

SpecSufficient == InitSufficient /\ [][NextSufficient]_vars

(***************************************************************************)
(* One specification per interaction phase: the phase starts in a state    *)
(* in which JSScraper.scrape enters it and runs to its end.                *)
(***************************************************************************)
PhaseNames == <<"tabs", "load_more", "scroll", "pagination">>

\* the request that is being rendered: "http://x/a#f"
RenderedUrl == <<"h", "t", "t", "p", ":", "/", "/", "x", "/", "a", "#", "f">>

\* the logs the tab phase can leave behind: k clicks, all on one selector
TabLogs(ks) ==
    {[i \in 1..k |-> TabClick(sel)] : k \in ks, sel \in 1..Len(tab_selectors)}

\* the states in which `phase` is entered with self.clicks in cs and
\* self.scrolls in sc
PhaseEntry(phase, cs, sc) ==
    /\ pc = phase
    /\ url = RenderedUrl
    /\ client = "open"
    /\ result = StaticScraper_scrape(RenderedUrl, [kind |-> "ok", page |-> SparsePage]).value
    /\ exc = NoExc
    /\ response = NoResponse
    /\ browser = "open"
    /\ pageUrl = LandingUrl
    /\ clicks \in cs
    /\ scrolls \in sc
    /\ pages = <<>>
    /\ loc = InitialLoc(phase)
    /\ events = <<"static", "render">>
                  \o SubSeq(PhaseNames, 1, CHOOSE i \in 1..Len(PhaseNames) : PhaseNames[i] = phase)
    /\ gets = 1
    /\ navs = 1
    /\ stamps = 0
    /\ verdict = "insufficient"
    /\ status = 200
    /\ scrollRaised = FALSE
    /\ lastHop = "none"
    /\ soup = <<>>
    /\ ret = <<>>

InitTabs == PhaseEntry("tabs", {<<>>}, {0})
NextTabs == TabsLocate \/ TabsClick
SpecTabs == InitTabs /\ [][NextTabs]_vars

InitLoadMore == PhaseEntry("load_more", TabLogs({0, 1, TAB_LIMIT}), {0})
NextLoadMore == LoadMoreTry
SpecLoadMore == InitLoadMore /\ [][NextLoadMore]_vars

InitScroll == PhaseEntry("scroll", TabLogs({0, 1, TAB_LIMIT}), {0})
NextScroll == ScrollStart \/ ScrollIter
SpecScroll == InitScroll /\ [][NextScroll]_vars

InitPagination == PhaseEntry("pagination", {<<>>}, 0..max_scrolls)
NextPagination == PaginationTry
SpecPagination == InitPagination /\ [][NextPagination]_vars

(***************************************************************************)
(* SectionParser.  A tree is the sequence of the children of <body>; an    *)
(* element is a record: its tag name, the text of a heading (label), the   *)
(* length of the text directly inside it, the <a href>, <img src>, <ul>/   *)
(* <ol> and <table> elements directly inside it in document order, the     *)
(* length of its own markup, and its child elements (landmarks hold        *)
(* headings and blocks).  Texts are modelled by their lengths, an <a> by   *)
(* the length of its text and its href, an <img> by its src and the length *)
(* of its alt, a list by the number of its <li> children, a table by the   *)
(* numbers of its <th> cells and of its <tr> rows that hold <td> cells.    *)
(***************************************************************************)
LandmarkNames == {"header", "nav", "main", "article", "section", "aside", "footer"}
HeadingNames == {"h1", "h2", "h3"}
SectionHeadingNames == {"h1", "h2", "h3", "h4"}

\* the slices of _extract_text, _extract_links, _extract_images,
\* _extract_lists and _extract_tables, and the text threshold of
\* _has_meaningful_content
TEXT_LIMIT == 2000
LINKS_LIMIT == 20
IMAGES_LIMIT == 10
LIST_ITEMS_LIMIT == 10
LISTS_LIMIT == 5
TABLE_ROWS_LIMIT == 10
TABLES_LIMIT == 3
MEANINGFUL_TEXT == 20
MAX_HTML_LENGTH == 500
ELLIPSIS_LENGTH == 3
CONTENT_HTML_ELEMENTS == 3
\* len("<body></body>")
BODY_TAGS_LENGTH == 13

RECURSIVE Cat(_)
\* ''.join / list.extend over a sequence of sequences
Cat(seqs) == IF seqs = <<>> THEN <<>> ELSE Head(seqs) \o Cat(Tail(seqs))

RECURSIVE SumSeq(_)
SumSeq(ns) == IF ns = <<>> THEN 0 ELSE Head(ns) + SumSeq(Tail(ns))

Positive(n) == n > 0

\* s[:n]
Slice(s, n) == SubSeq(s, 1, Min(Len(s), n))

\* urllib.parse.urlsplit raises ValueError("Invalid IPv6 URL") for a netloc
\* that holds one of the two brackets only
urlsplitRaises(u) ==
    LET netloc == urlsplit(u).netloc
    IN ("[" \in Range(netloc)) # ("]" \in Range(netloc))

\* urllib.parse.urljoin for a non-empty url that has its own scheme and host
\* (returned as it is) or is an absolute path (joined to the base's origin)
urljoin(base, u) ==
    LET b == urlsplit(base)
    IN IF urlsplit(u).scheme # <<>> THEN u
       ELSE b.scheme \o <<":", "/", "/">> \o b.netloc \o u

make_absolute_urlRaises(base_url, relative_url) ==
    relative_url # <<>> /\ urlsplitRaises(relative_url)

make_absolute_url(base_url, relative_url) ==
    IF relative_url = <<>> THEN <<>> ELSE urljoin(base_url, relative_url)

RECURSIVE find_all(_, _)
\* el.find_all(tag): the elements directly inside el, then those inside its
\* children, in document order
find_all(el, tag) ==
    el[tag] \o Cat([i \in 1..Len(el.children) |-> find_all(el.children[i], tag)])

\* the length of ' '.join(texts) over the non-empty texts
JoinLength(lengths) ==
    LET texts == SelectSeq(lengths, Positive)
    IN IF texts = <<>> THEN 0 ELSE SumSeq(texts) + Len(texts) - 1

RECURSIVE TextNodes(_)
\* the lengths of the strings of el, in document order
TextNodes(el) ==
    <<el.text>> \o Cat([i \in 1..Len(el.children) |-> TextNodes(el.children[i])])

\* len(el.get_text(separator=' ', strip=True))
get_text(el) == JoinLength(TextNodes(el))

RECURSIVE MarkupLength(_)
\* len(str(el))
MarkupLength(el) ==
    el.html + SumSeq([i \in 1..Len(el.children) |-> MarkupLength(el.children[i])])

_extract_text(elements) ==
    Min(JoinLength([i \in 1..Len(elements) |-> get_text(elements[i])]), TEXT_LIMIT)

Anchors(elements) == Cat([i \in 1..Len(elements) |-> find_all(elements[i], "links")])

_extract_links(base_url, elements) ==
    LET HasTextAndHref(a) ==
            a.text > 0 /\ make_absolute_url(base_url, a.href) # <<>>
        links == SelectSeq(Anchors(elements), HasTextAndHref)
    IN Slice([i \in 1..Len(links) |->
                [text |-> links[i].text,
                 url |-> make_absolute_url(base_url, links[i].href)]],
             LINKS_LIMIT)

Imgs(elements) == Cat([i \in 1..Len(elements) |-> find_all(elements[i], "images")])

_extract_images(base_url, elements) ==
    LET imgs == Imgs(elements)
    IN Slice([i \in 1..Len(imgs) |->
                [src |-> make_absolute_url(base_url, imgs[i].src),
                 alt |-> imgs[i].alt]],
             IMAGES_LIMIT)

_extract_lists(elements) ==
    LET uls == Cat([i \in 1..Len(elements) |-> find_all(elements[i], "lists")])
        lists == SelectSeq(uls, Positive)
    IN Slice([i \in 1..Len(lists) |-> Min(lists[i], LIST_ITEMS_LIMIT)], LISTS_LIMIT)

_extract_tables(elements) ==
    LET HasCells(table) == table.headers > 0 \/ table.rows > 0
        found == Cat([i \in 1..Len(elements) |-> find_all(elements[i], "tables")])
        tables == SelectSeq(found, HasCells)
    IN Slice([i \in 1..Len(tables) |->
                [headers |-> tables[i].headers,
                 rows |-> Min(tables[i].rows, TABLE_ROWS_LIMIT)]],
             TABLES_LIMIT)

\* the ValueError of urljoin leaves _extract_links or _extract_images
ExtractRaises(base_url, elements) ==
    \/ \E i \in 1..Len(Anchors(elements)) :
         make_absolute_urlRaises(base_url, Anchors(elements)[i].href)
    \/ \E i \in 1..Len(Imgs(elements)) :
         make_absolute_urlRaises(base_url, Imgs(elements)[i].src)

\* rawHtml by its length and whether "..." was appended
_truncate_html(html) ==
    IF html <= MAX_HTML_LENGTH THEN [length |-> html, cut |-> FALSE]
    ELSE [length |-> MAX_HTML_LENGTH + ELLIPSIS_LENGTH, cut |-> TRUE]

_has_meaningful_contentAlways(section) == TRUE

_has_meaningful_content(section) ==
    \/ section.text > MEANINGFUL_TEXT
    \/ Len(section.links) > 0
    \/ Len(section.images) > 0
    \/ Len(section.lists) > 0
    \/ Len(section.tables) > 0

\* element.name.title()
Title(name) ==
    [header |-> "Header", nav |-> "Nav", main |-> "Main", article |-> "Article",
     section |-> "Section", aside |-> "Aside", footer |-> "Footer"][name]

_determine_section_type(element) ==
    LET tag_map == [header |-> "header", nav |-> "navigation", main |-> "content",
                    article |-> "article", aside |-> "sidebar", footer |-> "footer"]
    IN IF element.name \in DOMAIN tag_map THEN tag_map[element.name] ELSE "content"

\* element.find(['h1', 'h2', 'h3', 'h4']): the first heading inside the element
FirstHeading(element) ==
    LET IsHeading(el) == el.name \in SectionHeadingNames
        found == SelectSeq(element.children, IsHeading)
    IN IF found = <<>> THEN <<>> ELSE <<Head(found)>>

_parse_section(base_url, element, section_id) ==
    [id |-> section_id,
     type |-> _determine_section_type(element),
     heading |-> IF FirstHeading(element) # <<>> THEN FirstHeading(element)[1].label
                 ELSE Title(element.name),
     text |-> _extract_text(<<element>>),
     links |-> _extract_links(base_url, <<element>>),
     images |-> _extract_images(base_url, <<element>>),
     lists |-> _extract_lists(<<element>>),
     tables |-> _extract_tables(<<element>>),
     rawHtml |-> _truncate_html(MarkupLength(element))]

\* soup.find_all([landmark names]), in document order
Landmarks(tree) ==
    LET IsLandmark(el) == el.name \in LandmarkNames
    IN SelectSeq(tree, IsLandmark)

\* the landmark loop of parse_sections: every landmark is parsed, the
\* sections with meaningful content are kept
LandmarkSections(base_url, tree) ==
    LET landmarks == Landmarks(tree)
    IN SelectSeq([k \in 1..Len(landmarks) |->
                    _parse_section(base_url, landmarks[k],
                                   <<landmarks[k].name, k - 1>>)],
                 _has_meaningful_content)

LandmarksRaise(base_url, tree) ==
    \E k \in 1..Len(Landmarks(tree)) : ExtractRaises(base_url, <<Landmarks(tree)[k]>>)

\* the h1-h3 elements among the elements of one parent, with their parent
HeadingsAmong(siblings) ==
    LET IsHeading(at) == siblings[at].name \in HeadingNames
        where == SelectSeq([i \in 1..Len(siblings) |-> i], IsHeading)
    IN [k \in 1..Len(where) |-> [siblings |-> siblings, at |-> where[k]]]

\* soup.find_all(['h1', 'h2', 'h3']), in document order: a child of the body,
\* then the headings inside it
Headings(tree) ==
    Cat([i \in 1..Len(tree) |->
           (IF tree[i].name \in HeadingNames
            THEN <<[siblings |-> tree, at |-> i]>> ELSE <<>>)
           \o HeadingsAmong(tree[i].children)])

\* heading.find_next_siblings() up to the next h1-h3
content_elements(heading) ==
    LET later == {j \in (heading.at + 1)..Len(heading.siblings) :
                    heading.siblings[j].name \in HeadingNames}
        stop == IF later = {} THEN Len(heading.siblings) + 1
                ELSE CHOOSE j \in later : \A k \in later : j <= k
    IN SubSeq(heading.siblings, heading.at + 1, stop - 1)

HeadingSection(base_url, heading, idx) ==
    [id |-> <<"section", idx>>,
     type |-> "content",
     heading |-> heading.siblings[heading.at].label,
     text |-> _extract_text(content_elements(heading)),
     links |-> _extract_links(base_url, content_elements(heading)),
     images |-> _extract_images(base_url, content_elements(heading)),
     lists |-> _extract_lists(content_elements(heading)),
     tables |-> _extract_tables(content_elements(heading)),
     rawHtml |-> _truncate_html(
         MarkupLength(heading.siblings[heading.at])
         + SumSeq([i \in 1..Min(Len(content_elements(heading)), CONTENT_HTML_ELEMENTS)
                     |-> MarkupLength(content_elements(heading)[i])]))]

_parse_by_headingsUnfiltered(base_url, tree) ==
    [k \in 1..Len(Headings(tree)) |-> HeadingSection(base_url, Headings(tree)[k], k - 1)]

_parse_by_headings(base_url, tree) ==
    LET headings == Headings(tree)
    IN SelectSeq([k \in 1..Len(headings) |->
                    HeadingSection(base_url, headings[k], k - 1)],
                 _has_meaningful_content)

HeadingsRaise(base_url, tree) ==
    \E k \in 1..Len(Headings(tree)) :
        ExtractRaises(base_url, content_elements(Headings(tree)[k]))

\* soup.find('body') or soup
Body(tree) ==
    [name |-> "body", label |-> "", text |-> 0, links |-> <<>>, images |-> <<>>,
     lists |-> <<>>, tables |-> <<>>,
     html |-> IF tree = <<>> THEN 0 ELSE BODY_TAGS_LENGTH,
     children |-> tree]

_fallback_section(base_url, tree) ==
    << [id |-> <<"section", 0>>,
        type |-> "content",
        heading |-> "Main Content",
        text |-> _extract_text(<<Body(tree)>>),
        links |-> _extract_links(base_url, <<Body(tree)>>),
        images |-> _extract_images(base_url, <<Body(tree)>>),
        lists |-> _extract_lists(<<Body(tree)>>),
        tables |-> _extract_tables(<<Body(tree)>>),
        rawHtml |-> _truncate_html(MarkupLength(Body(tree)))] >>

FallbackRaises(base_url, tree) == ExtractRaises(base_url, <<Body(tree)>>)

Raised(passes) == [raised |-> TRUE, sections |-> <<>>, passes |-> passes]
Returned(sections, passes) == [raised |-> FALSE, sections |-> sections, passes |-> passes]

\* line 33: the sections of the heading pass, or the fallback section
ReturnSections(base_url, tree, sections, passes) ==
    IF sections # <<>> THEN Returned(sections, passes)
    ELSE IF FallbackRaises(base_url, tree) THEN Raised(passes \o <<"fallback">>)
    ELSE Returned(_fallback_section(base_url, tree), passes \o <<"fallback">>)

\* lines 30-31: the heading pass replaces the landmark sections
HeadingPass(base_url, tree) ==
    IF HeadingsRaise(base_url, tree) THEN Raised(<<"landmarks", "headings">>)
    ELSE ReturnSections(base_url, tree, _parse_by_headings(base_url, tree),
                        <<"landmarks", "headings">>)

TooFewBelowOne(sections) == Len(sections) < 1

TooFew(sections) == Len(sections) < 2

\* what parse_sections returns or that it raises, and the passes it ran
parse_sections(base_url, tree) ==
    IF LandmarksRaise(base_url, tree) THEN Raised(<<"landmarks">>)
    ELSE IF TooFew(LandmarkSections(base_url, tree)) THEN HeadingPass(base_url, tree)
    ELSE ReturnSections(base_url, tree, LandmarkSections(base_url, tree), <<"landmarks">>)

(***************************************************************************)
(* Specifications of the pure functions: the input is drawn in the initial *)
(* state, one action applies the function and stores what it returns.      *)
(***************************************************************************)
\* the variables the pure functions do not touch, as after construction
NoRequest ==
    /\ client = "none"
    /\ result = NoResult
    /\ exc = NoExc
    /\ response = NoResponse
    /\ browser = "none"
    /\ pageUrl = 0
    /\ clicks = <<>>
    /\ scrolls = 0
    /\ pages = <<>>
    /\ loc = NoLoc
    /\ events = <<>>
    /\ gets = 0
    /\ navs = 0
    /\ stamps = 0
    /\ verdict = "none"
    /\ status = 0
    /\ scrollRaised = FALSE
    /\ lastHop = "none"

requestVars == <<client, result, exc, response, browser, handlerVars, historyVars>>

\* "", "http:", "http://x", "HTTP://x", "//x", "x"
UrlPrefixes ==
    { <<>>,
      <<"h", "t", "t", "p", ":">>,
      <<"h", "t", "t", "p", ":", "/", "/", "x">>,
      <<"H", "t", "t", "p", ":", "/", "/", "x">>,
      <<"/", "/", "x">>,
      <<"x">> }

UrlSuffixChars == {"/", "a", ";", "?", "#"}

\* the URLs normalize_url is applied to: a prefix and up to MaxUrlSuffix characters
UrlInputs ==
    {prefix \o suffix : prefix \in UrlPrefixes,
                        suffix \in SeqsUpTo(UrlSuffixChars, MaxUrlSuffix)}

InitNormalize ==
    /\ pc = "normalize"
    /\ url \in UrlInputs
    /\ soup = <<>>
    /\ ret = <<>>
    /\ NoRequest

\* normalize_url(url), and normalize_url of what it returned
ApplyNormalize ==
    /\ pc = "normalize"
    /\ ret' = [normalized |-> normalize_url(url),
               again |-> normalize_url(normalize_url(url))]
    /\ pc' = "normalized"
    /\ UNCHANGED <<url, soup, requestVars>>

NextNormalize == ApplyNormalize

SpecNormalize == InitNormalize /\ [][NextNormalize]_vars

(***************************************************************************)
(* parse_sections on its own: a tree is drawn, parsed, and what the parser *)
(* returned is classified by is_sufficient as StaticScraper does.          *)
(***************************************************************************)
BaseUrl == <<"h", "t", "t", "p", ":", "/", "/", "x", "/", "p">>

\* href and src values: "/a", "http://x/b", "" and "http://["
Href ==
    [relative |-> <<"/", "a">>,
     absolute |-> <<"h", "t", "t", "p", ":", "/", "/", "x", "/", "b">>,
     empty |-> <<>>,
     broken |-> <<"h", "t", "t", "p", ":", "/", "/", "[">>]

Element(name, label, text, html, children) ==
    [name |-> name, label |-> label, text |-> text, links |-> <<>>,
     images |-> <<>>, lists |-> <<>>, tables |-> <<>>, html |-> html,
     children |-> children]

Anchor(text, href) == [text |-> text, href |-> href]
Img(src, alt) == [src |-> src, alt |-> alt]
Table(headers, rows) == [headers |-> headers, rows |-> rows]

\* <h1>A</h1>: a heading with a one-letter text
Heading(name, label) == Element(name, label, 1, 10, <<>>)
\* <p>...</p> with a text of n characters
Paragraph(n) == Element("p", "", n, n + 7, <<>>)

\* a block of n links, the i-th with a text of i characters
LinksBlock(n) ==
    [Element("div", "", (n * (n + 1)) \div 2 + n, 20 * n + 11, <<>>)
        EXCEPT !.links = [i \in 1..n |-> Anchor(i, Href.relative)]]

\* a block over every cap: a link without text, one with an empty href, 21
\* more links, 11 images (one with an empty src), 6 non-empty lists and an
\* empty one, 4 tables with cells and one without
CrowdedBlock ==
    [Element("div", "", 2500, 4000, <<>>)
        EXCEPT !.links = <<Anchor(0, Href.relative), Anchor(2, Href.empty)>>
                         \o [i \in 1..(LINKS_LIMIT + 1) |-> Anchor(i, Href.absolute)],
               !.images = <<Img(Href.empty, 0)>>
                          \o [i \in 1..IMAGES_LIMIT |-> Img(Href.relative, i)],
               !.lists = <<0, LIST_ITEMS_LIMIT + 1>>
                         \o [i \in 1..LISTS_LIMIT |-> i],
               !.tables = <<Table(0, 0), Table(1, TABLE_ROWS_LIMIT + 1)>>
                          \o [i \in 1..TABLES_LIMIT |-> Table(0, i)]]

\* <div><a href="http://[">x</a></div>
BrokenLinkBlock ==
    [Element("div", "", 1, 35, <<>>) EXCEPT !.links = <<Anchor(1, Href.broken)>>]

Landmark(name, children) == Element(name, "", 0, 2 * Len(name) + 5, children)

NavLandmark ==
    [Element("nav", "", 3, 60, <<>>)
        EXCEPT !.links = <<Anchor(1, Href.relative), Anchor(2, Href.absolute)>>]

Elements ==
    {Heading("h1", "A"), Heading("h2", "B"), Paragraph(4), Paragraph(220), CrowdedBlock, BrokenLinkBlock,
     Landmark("main", <<Heading("h1", "A"), Paragraph(220)>>), NavLandmark,
     Landmark("footer", <<Paragraph(4)>>)}

\* <h1>A</h1><p>(220 chars)</p><h2>B</h2><p>text</p>
StaticPageExample == <<Heading("h1", "A"), Paragraph(220), Heading("h2", "B"), Paragraph(4)>>

\* the trees parse_sections is applied to: the examples, and up to MaxElements
\* elements in any order
Trees ==
    SeqsUpTo(Elements, MaxElements) \cup
    { StaticPageExample,
      <<LinksBlock(500)>>,
      <<Heading("h1", "A"), LinksBlock(500)>>,
      <<Landmark("article", <<LinksBlock(500)>>), NavLandmark>>,
      <<Paragraph(10000)>>,
      <<Heading("h1", "A"), Paragraph(10000), Paragraph(10000)>> }

InitParse ==
    /\ pc = "parse"
    /\ url = BaseUrl
    /\ soup \in Trees
    /\ ret = <<>>
    /\ NoRequest

\* sections = parser.parse_sections(soup), or the exception it raises
ApplyParse ==
    /\ pc = "parse"
    /\ ret' = parse_sections(url, soup)
    /\ pc' = IF ret'.raised THEN "raised" ELSE "parsed"
    /\ UNCHANGED <<url, soup, requestVars>>

\* what is_sufficient reads of a section
SufficiencyView(section) ==
    Section(section.text, Len(section.links), Len(section.images))

\* main.py line 62 on the result built from the sections
ClassifyParsed ==
    /\ pc = "parsed"
    /\ verdict' = IF is_sufficient([sections |->
                        [i \in 1..Len(ret.sections) |-> SufficiencyView(ret.sections[i])]])
                  THEN "sufficient" ELSE "insufficient"
    /\ pc' = "classified"
    /\ UNCHANGED <<pureVars, url, client, result, exc, response, browser,
                   handlerVars, events, gets, navs, stamps, status,
                   scrollRaised, lastHop>>

NextParse == ApplyParse \/ ClassifyParsed

SpecParse == InitParse /\ [][NextParse]_vars

(***************************************************************************)
(* Properties.                                                             *)
(***************************************************************************)
IsFetch(e) == e \in {"static", "render"}
Fetches == SelectSeq(events, IsFetch)

\* the rendered fetch was launched, returned, and the response was sent
RenderedOk ==
    /\ pc = "done"
    /\ "render" \in Range(events)
    /\ "JSRenderError" \notin Range(events)

\* C1: the static fetch runs first; the rendered fetch is launched exactly
\* when the static fetch returned a result that is_sufficient rejected; a
\* rendered result, once returned, is the response, and nothing else is fetched.
C1_StaticFirstRenderIffInsufficient ==
    /\ Fetches \in {<<>>, <<"static">>, <<"static", "render">>}
    /\ ("render" \in Range(events) => verdict = "insufficient")
    /\ (verdict = "insufficient" /\ pc # "js_launch" => "render" \in Range(events))
    /\ (RenderedOk =>
          /\ response.status = 200
          /\ response.result = result
          /\ response.result.errors = <<>>
          /\ response.result.interactions =
                [clicks |-> clicks, scrolls |-> scrolls, pages |-> pages]
          /\ gets = 1
          /\ navs = 1)

\* a sparse rendered result was returned as the response
C1_Witness ==
    /\ RenderedOk
    /\ response.status = 200
    /\ ~is_sufficient(response.result)

StaticFailed == \E t \in {"NetworkError", "ParsingError"} : t \in Range(events)

\* C2: once the static fetch has raised NetworkError or ParsingError, the
\* rendered fetch is never started and the request ends with the degraded result.
C2_StaticFailureIsTerminal ==
    StaticFailed =>
        /\ "render" \notin Range(events)
        /\ navs = 0
        /\ browser = "none"
        /\ pc \in {"except", "done"}
        /\ (pc = "done" =>
               /\ response.status = 200
               /\ Len(response.result.errors) = 1
               /\ response.result.sections = <<>>)

C2_Witness ==
    /\ pc = "done"
    /\ "ParsingError" \in Range(events)
    /\ response.status = 200
    /\ Len(response.result.errors) = 1

FetcherRaised == \E t \in ScraperError : t \in Range(events)

\* C3: when a fetcher raised NetworkError, ParsingError or JSRenderError, the
\* caller gets status 200 and a result with the requested URL, a timestamp,
\* empty meta, sections and interactions and exactly one error message, which
\* begins with "HTTP 404:" when the GET was answered with 404.
C3_DegradedResult ==
    (pc = "done" /\ FetcherRaised) =>
        /\ response.status = 200
        /\ response.result.url = url
        /\ response.result.scrapedAt = Now
        /\ DOMAIN response.result.meta = {}
        /\ response.result.sections = <<>>
        /\ DOMAIN response.result.interactions = {}
        /\ Len(response.result.errors) = 1
        /\ (status = 404 =>
               StartsWith(response.result.errors[1], <<"HTTP ", 404, ": ">>))

C3_Witness ==
    /\ pc = "done"
    /\ status = 404
    /\ response.status = 200
    /\ response.result.url # normalize_url(url)
    /\ Len(response.result.errors) = 1

ContentModelFields == {"url", "scrapedAt", "meta", "sections", "interactions", "errors"}
MetaFields == {"title", "description", "language", "canonical"}
InteractionFields == {"clicks", "scrolls", "pages"}

\* C4: every result returned has exactly the ContentModel fields, a meta with
\* its four fields and an interactions with clicks, scrolls and pages.
C4_WellFormedContentModel ==
    (pc = "done" /\ response.status = 200) =>
        /\ DOMAIN response.result = ContentModelFields
        /\ DOMAIN response.result.meta = MetaFields
        /\ DOMAIN response.result.interactions = InteractionFields

\* C5: scrapedAt is assigned exactly once per result, by the dispatch, as the
\* last step; the results the fetchers hand back carry no scrapedAt.
C5_StampedOnceAtBoundary ==
    /\ stamps <= 1
    /\ (stamps = 1 => pc = "done")
    /\ (pc \in {"check", "js_launch", "js_return"} => "scrapedAt" \notin DOMAIN result)
    /\ (pc = "done" /\ response.status = 200 =>
          /\ stamps = 1
          /\ "scrapedAt" \in DOMAIN response.result
          /\ response.result.scrapedAt = Now)

C5_Witness ==
    /\ RenderedOk
    /\ stamps = 1
    /\ "scrapedAt" \in DOMAIN response.result

HasContent(q) ==
    \E i \in 1..Len(q) : q[i].text > 0 \/ q[i].links > 0 \/ q[i].images > 0

ThreeSections(total) ==
    /\ Len(result.sections) = 3
    /\ SumText(result.sections) = total
    /\ \A i \in 1..3 : result.sections[i].links = 0 /\ result.sections[i].images = 0

\* C6: is_sufficient rejects a result exactly when it has fewer than 1
\* section, or its text lengths sum to less than 200, or no section has text,
\* a link or an image; 3 sections of 150 characters in all without links or
\* images are rejected, the same with 250 characters are accepted.
C6_SufficiencyPredicate ==
    pc = "applied" =>
        /\ (verdict = "insufficient") <=>
              \/ Len(result.sections) < 1
              \/ SumText(result.sections) < 200
              \/ ~HasContent(result.sections)
        /\ (ThreeSections(150) => verdict = "insufficient")
        /\ (ThreeSections(250) => verdict = "sufficient")

C6_Witness ==
    /\ pc = "applied"
    /\ ThreeSections(250)
    /\ verdict = "sufficient"

\* C7: a URL whose scheme is not http/https or whose host is empty causes no
\* GET and no navigation, and is answered as a client-input failure.
C7_InvalidUrlRejectedBeforeFetch ==
    (pc # "idle" /\ ~is_valid_url(url)) =>
        /\ gets = 0
        /\ navs = 0
        /\ (pc = "done" => response.status = 422)

PhaseOrder == <<"tabs", "load_more", "scroll", "pagination", "return">>
PhasePcs == {"tabs", "load_more", "scroll", "pagination"}
IsPhaseEvent(e) == e \in Range(PhaseOrder)
InteractionTrace == SelectSeq(events, IsPhaseEvent)

\* C8: perform_interactions starts tabs, load-more, infinite-scroll and
\* pagination once each in that order and then returns normally, whichever
\* page primitive failed on the way: it is never left through an exception.
C8_PhasesInOrderNeverRaise ==
    /\ \E n \in 0..Len(PhaseOrder) : InteractionTrace = SubSeq(PhaseOrder, 1, n)
    /\ (pc \in PhasePcs => InteractionTrace # <<>> /\ InteractionTrace[Len(InteractionTrace)] = pc)
    /\ (InteractionTrace # <<>> /\ pc \notin PhasePcs => InteractionTrace = PhaseOrder)
    /\ (scrollRaised => "pagination" \in Range(events))

\* a primitive failed in the scroll phase, the pagination phase then ran and
\* recorded a page, and perform_interactions returned
C8_Witness ==
    /\ pc = "js_extract"
    /\ scrollRaised
    /\ pages # <<>>
    /\ InteractionTrace = PhaseOrder

\* what is left of the running phase, at least 1 while a phase runs
PhaseRank ==
    CASE pc = "tabs" ->
           IF loc.tabs = 0
           THEN (Len(tab_selectors) - loc.sel) + TAB_LIMIT + 1
           ELSE Min(loc.tabs, TAB_LIMIT) - loc.idx
      [] pc = "load_more" ->
           (Len(load_more_selectors) - loc.sel) + (max_clicks - loc.clicks_performed)
      [] pc = "scroll" ->
           IF loc.stage = "init" THEN max_scrolls + 1
           ELSE max_scrolls - loc.scroll_attempts
      [] pc = "pagination" ->
           (max_depth - loc.current_page) * (Len(pagination_selectors) + 1)
             - loc.sel
      [] OTHER -> 0

PhaseWeight ==
    Len(tab_selectors) + TAB_LIMIT + Len(load_more_selectors) + max_clicks
      + max_scrolls + max_depth * (Len(pagination_selectors) + 1) + 1

PhasesLeft ==
    CASE pc = "tabs" -> 4
      [] pc = "load_more" -> 3
      [] pc = "scroll" -> 2
      [] pc = "pagination" -> 1
      [] OTHER -> 0

Rank == PhasesLeft * PhaseWeight + PhaseRank

RankDecreases == pc \in PhasePcs => (PhaseRank >= 1 /\ Rank' < Rank)

\* C9: every step of the load-more, scroll and pagination loops (and of the
\* tab loop) moves towards its bound or leaves the loop: a measure over the
\* naturals decreases at every step taken inside perform_interactions.
C9_InteractionsTerminate == [][RankDecreases]_vars

\* every loop ran to its bound: 5 tab clicks, 3 load-more clicks, 3 scrolls, 2 pages
C9_Witness ==
    /\ pc = "js_extract"
    /\ Len(clicks) = TAB_LIMIT + max_clicks
    /\ scrolls = max_scrolls
    /\ Len(pages) = max_depth - 1

\* C10: the browser is open only while JSScraper.scrape is running: it is
\* closed when the fetcher has returned and when it has raised.
C10_BrowserClosedOnEveryExit ==
    /\ (pc \in {"js_return", "except", "done", "idle"} => browser # "open")
    /\ (pc = "js_return" => browser = "closed")
    /\ (browser = "open" => pc \in {"js_setup", "interact", "js_extract"} \cup PhasePcs)
    /\ ("render" \in Range(events) /\ navs > 0 /\ pc \in {"except", "done"}
           => browser = "closed")

\* the fetcher raised after the navigation and the browser is closed
C10_Witness ==
    /\ pc = "except"
    /\ exc.type = "JSRenderError"
    /\ "return" \in Range(events)
    /\ browser = "closed"

\* C11: pages never holds more than max_depth - 1 entries, numbered 2, 3, ...
\* in recording order, with pairwise distinct URLs, none of them the URL the
\* phase started on; the phase is still running only while fewer than
\* max_depth - 1 entries are recorded.
C11_PagesBoundedNumberedDistinct ==
    /\ Len(pages) <= max_depth - 1
    /\ \A i \in 1..Len(pages) : pages[i].pageNumber = i + 1
    /\ \A i, j \in 1..Len(pages) : i # j => pages[i].url # pages[j].url
    /\ \A i \in 1..Len(pages) : pages[i].url # LandingUrl
    /\ (pc = "pagination" =>
          /\ Len(pages) = loc.current_page - 1
          /\ Len(pages) < max_depth - 1
          /\ loc.visited_urls = {LandingUrl} \cup {pages[i].url : i \in 1..Len(pages)})

\* a series of three pages was followed to its end: two entries
C11_Witness ==
    /\ pc = "js_extract"
    /\ pages = <<PageEntry(2, 2), PageEntry(3, 3)>>
    /\ pageUrl = 3
    /\ lastHop = "recorded"

IsTabClick(c) == c.type = "tab"
TabEntries == SelectSeq(clicks, IsTabClick)

C16_TabLog ==
    /\ Len(TabEntries) <= TAB_LIMIT
    /\ \A i, j \in 1..Len(TabEntries) : TabEntries[i].selector = TabEntries[j].selector
    /\ (pc = "tabs" /\ loc.tabs = 0 => clicks = <<>>)
    /\ (pc = "tabs" /\ loc.tabs > 0 =>
          /\ Len(TabEntries) <= loc.idx
          /\ \A i \in 1..Len(TabEntries) : TabEntries[i] = TabClick(loc.sel))

C16_TabStep ==
    pc = "tabs" =>
        /\ pc' \in {"tabs", "load_more"}
        /\ (loc.tabs = 0 /\ pc' = "tabs" =>
              \/ loc'.sel = loc.sel /\ loc'.tabs > 0 /\ loc'.idx = 0
              \/ loc'.sel = loc.sel + 1 /\ loc'.tabs = 0)
        /\ (loc.tabs = 0 /\ pc' = "load_more" => loc.sel = Len(tab_selectors))
        /\ (loc.tabs > 0 /\ pc' = "tabs" =>
              /\ loc'.sel = loc.sel
              /\ loc'.tabs = loc.tabs
              /\ loc'.idx = loc.idx + 1)
        /\ (loc.tabs > 0 /\ pc' = "load_more" => loc.idx + 1 = Min(loc.tabs, TAB_LIMIT))
        /\ (loc.tabs = 0 => clicks' = clicks)
        /\ \A o \in TabOutcomes :
              TabsClickStep(o) =>
                 clicks' = IF o = "ok" THEN Append(clicks, TabClick(loc.sel)) ELSE clicks

\* C16: the tab selectors are tried in order until one matches; from then on
\* the selector stays the same until the phase ends, also when no match was
\* clicked; the tab entries all carry that selector, are at most 5, and one is
\* appended for each successful click and none for any other match.
C16_TabsStopAtFirstMatchingSelector == []C16_TabLog /\ [][C16_TabStep]_vars

\* the first selector matched nothing, the second matched more than 5
\* elements, 5 were clicked, and the phase is over
C16_Witness ==
    /\ pc = "load_more"
    /\ clicks = [i \in 1..TAB_LIMIT |-> TabClick(2)]

IsLoadMoreClick(c) == c.type = "load_more"
LoadMoreEntries == SelectSeq(clicks, IsLoadMoreClick)

C17_LoadMoreLog ==
    /\ Len(LoadMoreEntries) <= max_clicks
    /\ \A i, j \in 1..Len(LoadMoreEntries) :
          LoadMoreEntries[i].selector = LoadMoreEntries[j].selector
    /\ (pc = "load_more" =>
          /\ Len(LoadMoreEntries) = loc.clicks_performed
          /\ loc.clicks_performed < max_clicks
          /\ \A i \in 1..Len(LoadMoreEntries) : LoadMoreEntries[i] = LoadMoreClick(loc.sel))

C17_LoadMoreStep ==
    pc = "load_more" =>
        /\ pc' \in {"load_more", "scroll"}
        /\ (pc' = "load_more" =>
              \/ loc'.sel = loc.sel
              \/ loc'.sel = loc.sel + 1 /\ loc.clicks_performed = 0 /\ clicks' = clicks)
        /\ \A o \in LoadMoreOutcomes :
              (LoadMoreStep(o) /\ o # "ok") =>
                  /\ clicks' = clicks
                  /\ IF loc.clicks_performed = 0 /\ loc.sel < Len(load_more_selectors)
                     THEN pc' = "load_more" /\ loc'.sel = loc.sel + 1
                     ELSE pc' = "scroll"

\* C17: at most 3 load_more entries are recorded in all; once a selector has
\* been clicked no later selector is tried; a selector that is not visible or
\* fails before any click hands over to the next selector.
C17_LoadMoreAtMostThreeOneSelector == []C17_LoadMoreLog /\ [][C17_LoadMoreStep]_vars

\* two selectors were passed over, the third was clicked twice and then
\* stopped answering: the phase is over with 2 entries
C17_Witness ==
    /\ pc = "scroll"
    /\ LoadMoreEntries = <<LoadMoreClick(3), LoadMoreClick(3)>>

C18_ScrollCount ==
    /\ scrolls <= max_scrolls
    /\ (pc = "scroll" /\ loc.stage = "loop" =>
          /\ scrolls = loc.scroll_attempts
          /\ scrolls < max_scrolls)

C18_ScrollStep ==
    (pc = "scroll" /\ loc.stage = "loop") =>
        /\ scrolls' \in {scrolls, scrolls + 1}
        /\ (scrolls' = scrolls => pc' = "pagination")
        /\ (pc' = "scroll" => loc'.previous_height > loc.previous_height)
        /\ \A f \in ScrollFailures : \A new_height \in 0..MaxHeight :
              ScrollStep(f, new_height) =>
                 ((scrolls' = scrolls + 1) <=>
                     (f = "none" /\ new_height > loc.previous_height))

\* C18: scrolls counts exactly the iterations after which the height was
\* strictly greater, never exceeds 3, and the first iteration without growth
\* ends the phase; at most 3 iterations are performed.
C18_ScrollsCountGrowthOnly == []C18_ScrollCount /\ [][C18_ScrollStep]_vars

\* two iterations grew the page, the third did not: the phase ended with 2
C18_Witness ==
    /\ pc = "pagination"
    /\ scrolls = 2
    /\ ~scrollRaised

C19_RevisitEndsPhase ==
    lastHop = "revisit" =>
        /\ pc = "js_extract"
        /\ pageUrl \in {LandingUrl} \cup {pages[i].url : i \in 1..Len(pages)}

C19_RevisitStep ==
    \A o \in PaginationOutcomes :
        (PaginationStep(o) /\ o.kind = "ok" /\ o.to \in loc.visited_urls) =>
            /\ pc' = "js_extract"
            /\ pages' = pages
            /\ events' = Append(events, "return")

C20_EveryNavigationRecorded ==
    /\ (pc = "pagination" => pageUrl \in loc.visited_urls)
    /\ (pc = "js_extract" =>
          pageUrl \in {LandingUrl} \cup {pages[i].url : i \in 1..Len(pages)})

\* C15: normalize_url drops the fragment, keeps scheme, host, path and query,
\* and applying it twice gives what applying it once gives.
C15_NormalizeKeepsPartsIdempotent ==
    pc = "normalized" =>
        LET before == urlsplit(url)
            after == urlsplit(ret.normalized)
        IN /\ "#" \notin Range(ret.normalized)
           /\ after.scheme = before.scheme
           /\ after.netloc = before.netloc
           /\ after.path = before.path
           /\ after.query = before.query
           /\ ret.again = ret.normalized

\* the caps of the bounded fields of one section
WithinCaps(section) ==
    /\ section.text <= TEXT_LIMIT
    /\ Len(section.links) <= LINKS_LIMIT
    /\ Len(section.images) <= IMAGES_LIMIT
    /\ Len(section.lists) <= LISTS_LIMIT
    /\ \A i \in 1..Len(section.lists) : section.lists[i] <= LIST_ITEMS_LIMIT
    /\ Len(section.tables) <= TABLES_LIMIT
    /\ \A i \in 1..Len(section.tables) : section.tables[i].rows <= TABLE_ROWS_LIMIT

\* C12: for every tree the extraction does not fail and every section keeps
\* its bounded fields within the caps (text 2000, links 20, images 10, lists 5
\* of 10 items, tables 3 of 10 rows); a scope of 500 links yields exactly the
\* first 20 in document order.
C12_CapsHoldExtractionNeverFails ==
    pc # "parse" =>
        /\ ~ret.raised
        /\ \A i \in 1..Len(ret.sections) : WithinCaps(ret.sections[i])
        /\ soup = <<LinksBlock(500)>> =>
              /\ Len(ret.sections) = 1
              /\ Len(ret.sections[1].links) = LINKS_LIMIT
              /\ \A k \in 1..LINKS_LIMIT : ret.sections[1].links[k].text = k

\* a returned sequence comes from one pass: landmark ids only, or heading ids only
FromOnePass(sections) ==
    \/ \A i \in 1..Len(sections) : sections[i].id[1] \in LandmarkNames
    \/ \A i \in 1..Len(sections) : sections[i].id[1] = "section"

IsFallback(sections) ==
    /\ Len(sections) = 1
    /\ sections[1].heading = "Main Content"
    /\ sections[1].id = <<"section", 0>>

\* C13 (as stated): parse_sections returns the output of exactly one pass and
\* never an empty sequence: with at least 2 meaningful landmarks the landmark
\* sections and no heading pass, with headings and no landmarks the
\* heading-pass sections, for an empty tree one "Main Content" section.
C13_HeadingsAlwaysReturned ==
    pc \in {"parsed", "classified"} =>
        /\ ret.sections # <<>>
        /\ FromOnePass(ret.sections)
        /\ Len(LandmarkSections(url, soup)) >= 2 =>
              /\ ret.sections = LandmarkSections(url, soup)
              /\ ret.passes = <<"landmarks">>
        /\ Landmarks(soup) = <<>> /\ Headings(soup) # <<>> =>
              ret.sections = _parse_by_headings(url, soup)
        /\ soup = <<>> => IsFallback(ret.sections)

\* C13 (amended): parse_sections returns the output of exactly one pass and
\* never an empty sequence: with at least 2 meaningful landmarks the landmark
\* sections and no heading pass; otherwise the heading-pass sections when that
\* pass retains at least one; otherwise, headings or not, one "Main Content"
\* section.
C13_OnePassNeverEmpty ==
    pc \in {"parsed", "classified"} =>
        /\ ret.sections # <<>>
        /\ FromOnePass(ret.sections)
        /\ Len(LandmarkSections(url, soup)) >= 2 =>
              /\ ret.sections = LandmarkSections(url, soup)
              /\ ret.passes = <<"landmarks">>
        /\ Len(LandmarkSections(url, soup)) < 2 /\ _parse_by_headings(url, soup) # <<>> =>
              /\ ret.sections = _parse_by_headings(url, soup)
              /\ ret.passes = <<"landmarks", "headings">>
        /\ Len(LandmarkSections(url, soup)) < 2 /\ _parse_by_headings(url, soup) = <<>> =>
              /\ IsFallback(ret.sections)
              /\ ret.passes = <<"landmarks", "headings", "fallback">>

\* a tree with headings and no landmarks whose heading pass retained nothing
C13_Witness ==
    /\ pc = "parsed"
    /\ Landmarks(soup) = <<>>
    /\ Headings(soup) # <<>>
    /\ ret.passes = <<"landmarks", "headings", "fallback">>
    /\ IsFallback(ret.sections)

\* C14 (as stated): the page h1 "A", 220 characters, h2 "B", "text" yields 2
\* sections section-0 "A" and section-1 "B" and is classified sufficient.
C14_ExampleYieldsTwoSections ==
    pc = "classified" /\ soup = StaticPageExample =>
        /\ Len(ret.sections) = 2
        /\ ret.sections[1].id = <<"section", 0>> /\ ret.sections[1].heading = "A"
        /\ ret.sections[2].id = <<"section", 1>> /\ ret.sections[2].heading = "B"
        /\ verdict = "sufficient"

\* C14 (amended): the page h1 "A", 220 characters, h2 "B", "text" yields 1
\* section, section-0 "A" with the 220 characters; the section of "B" holds
\* 4 characters and nothing else and is dropped; the result is sufficient.
C14_ExampleYieldsOneSection ==
    pc = "classified" /\ soup = StaticPageExample =>
        /\ Len(ret.sections) = 1
        /\ ret.sections[1].id = <<"section", 0>>
        /\ ret.sections[1].heading = "A"
        /\ ret.sections[1].text = 220
        /\ verdict = "sufficient"

C14_Witness == pc = "classified" /\ soup = StaticPageExample /\ ret.passes = <<"landmarks", "headings">>

\* C21: the fallback section is synthesized if and only if the landmark pass
\* and the heading pass both retained no section; when the landmark pass
\* retained one, the "Main Content" section is not what is returned.
C21_FallbackIffBothPassesEmpty ==
    pc \in {"parsed", "classified"} =>
        /\ "fallback" \in Range(ret.passes) <=>
              /\ LandmarkSections(url, soup) = <<>>
              /\ _parse_by_headings(url, soup) = <<>>
        /\ LandmarkSections(url, soup) # <<>> => ~IsFallback(ret.sections)

\* text longer than 20 characters, or a link, an image, a list or a table
Meaningful(section) ==
    \/ section.text > 20
    \/ section.links # <<>>
    \/ section.images # <<>>
    \/ section.lists # <<>>
    \/ section.tables # <<>>

\* C22 (as stated): every section parse_sections returns has meaningful
\* content: text longer than 20 characters, or a link, image, list or table.
C22_EveryReturnedSectionMeaningful ==
    pc \in {"parsed", "classified"} =>
        \A i \in 1..Len(ret.sections) : Meaningful(ret.sections[i])

\* C22 (amended): every section returned from the landmark pass or the
\* heading pass has meaningful content; the fallback section is returned
\* without that test.
C22_PassSectionsMeaningful ==
    pc \in {"parsed", "classified"} /\ "fallback" \notin Range(ret.passes) =>
        \A i \in 1..Len(ret.sections) : Meaningful(ret.sections[i])

\* a heading pass that built a section without meaningful content and
\* returned only the others
C22_Witness ==
    /\ pc = "parsed"
    /\ ret.passes = <<"landmarks", "headings">>
    /\ Len(ret.sections) < Len(Headings(soup))

\* C23: the rawHtml of every section has at most 500 characters, whatever the
\* length of the markup, and ends with "..." exactly when the markup was cut.
C23_RawHtmlAtMost500 ==
    pc \in {"parsed", "classified"} =>
        /\ \A i \in 1..Len(ret.sections) :
              ret.sections[i].rawHtml.length <= MAX_HTML_LENGTH
        /\ "fallback" \in Range(ret.passes) =>
              (ret.sections[1].rawHtml.cut <=>
                  MarkupLength(Body(soup)) > MAX_HTML_LENGTH)

\* C24: every image entry of every section carries a non-empty, absolute src;
\* an image element whose src is present but empty contributes no entry.
C24_ImagesHaveAbsoluteSrc ==
    pc \in {"parsed", "classified"} =>
        \A i \in 1..Len(ret.sections) :
            \A k \in 1..Len(ret.sections[i].images) :
                /\ ret.sections[i].images[k].src # <<>>
                /\ urlsplit(ret.sections[i].images[k].src).scheme # <<>>
                /\ urlsplit(ret.sections[i].images[k].src).netloc # <<>>

\* the response is a degraded result: status 200 with an error message
Degraded ==
    /\ response.status = 200
    /\ response.result.errors # <<>>

\* the failure named at the end of the error message of the degraded result
DegradedCause ==
    response.result.errors[1][Len(response.result.errors[1])]

\* failures of a fetch path that are none of the classified kinds: raised by
\* page.content(), or by extract_meta / parse_sections on the built tree
Unclassified == {"content", "extract"}

\* C25: a failure inside a fetch path that is no transport failure, no non-2xx
\* status, no failure to parse the HTML into a tree and no launch or
\* navigation failure is never turned into a degraded result.
C25_UnclassifiedFailurePropagates ==
    Degraded => DegradedCause \notin Unclassified

\* C26: the HTTP client a request creates for its static fetch is closed
\* before the response of that request is returned, on every exit path.
C26_ClientClosedBeforeResponse ==
    response # NoResponse => client # "open"

\* C27: is_sufficient returns true exactly when the text lengths of the
\* sections sum to at least 200; the section-count test and the
\* text-link-or-image test never change the outcome.
C27_SufficientIffTextAtLeast200 ==
    pc = "applied" =>
        (verdict = "sufficient" <=> SumText(result.sections) >= 200)

\* exactly 200 characters, no link and no image: accepted
C27_Witness ==
    /\ pc = "applied"
    /\ SumText(result.sections) = 200
    /\ \A i \in 1..Len(result.sections) :
          result.sections[i].links = 0 /\ result.sections[i].images = 0
    /\ verdict = "sufficient"

====
